---- MODULE Spec2Model ----
(***************************************************************************)
(* Optimistic authentication UI of guruji: the AuthCache object (the local *)
(* storage snapshot, the sticky has-account flag, the optimistic render    *)
(* and its click handler) and the BrowserDetect object (in-app browser     *)
(* classification and the pop-up / redirect router).                       *)
(*                                                                         *)
(* src/unnamed/part_000 holds two revisions of the AuthCache script; the   *)
(* model follows the later one (lines 161-354), the one with the           *)
(* has-account flag.                                                       *)
(***************************************************************************)
EXTENDS Integers, Sequences, FiniteSets, TLC

VARIABLES
    storage,    \* "ok" | "disabled": whether localStorage can be accessed at all;
                \* a property of the browser, fixed for a behaviour (a setItem
                \* refused for lack of room is an input of the writing actions)
    now,        \* Date.now(), milliseconds
    ticks,      \* number of clock advances so far (bounds the model)
    cache,      \* localStorage item 'guruji_auth_cache'
    flag,       \* localStorage item 'guruji_has_account'
    clerk,      \* window.Clerk
    env,        \* navigator.userAgent and the window properties the probe reads
    ui,         \* contents of the mount point (container.innerHTML and btn)
    lastOp      \* the last operation performed: name, argument, result, the
                \* storage calls it made and the flows it started

vars == <<storage, now, ticks, cache, flag, clerk, env, ui, lastOp>>

-----------------------------------------------------------------------------
(* Bounds of the model *)

MaxTicks == 2

-----------------------------------------------------------------------------
(* JavaScript values.  A value is a tuple whose first element is its type. *)

Undefined == <<"undefined">>
Null == <<"null">>
NaN == <<"NaN">>
JSTrue == <<"boolean", "true">>
JSFalse == <<"boolean", "false">>
Str(s) == <<"string", s>>
Num(n) == <<"number", n>>
Obj(f) == <<"object", f>>

TypeOf(v) == v[1]

\* ToBoolean: the values that `||`, `!` and `?:` treat as false
Truthy(v) == v \notin {Undefined, Null, NaN, JSFalse, Str(""), Num(0)}

\* a || b
OrElse(a, b) == IF Truthy(a) THEN a ELSE b

\* o.k for an object o: undefined when the property is missing
Prop(o, k) == IF k \in DOMAIN o[2] THEN o[2][k] ELSE Undefined

\* ToNumber, as used by the subtraction Date.now() - data.lastSync
ToNumber(v) ==
    CASE TypeOf(v) = "number" -> v
      [] v = Null -> Num(0)
      [] v = JSFalse -> Num(0)
      [] v = JSTrue -> Num(1)
      [] v = Str("") -> Num(0)
      [] OTHER -> NaN

-----------------------------------------------------------------------------
(* JSON text.  A text is what localStorage holds: the empty string, text   *)
(* that is not JSON, the literal null, or an object given by its members   *)
(* in order, each a name and a token.                                      *)

EmptyText == [kind |-> "empty"]
GarbageText == [kind |-> "garbage"]
NullText == [kind |-> "null"]
ObjectText(members) == [kind |-> "object", members |-> members]

\* the token JSON.stringify writes for a property value
Token(v) ==
    CASE TypeOf(v) = "boolean" -> <<"literal", v[2]>>
      [] TypeOf(v) = "string" -> <<"quoted", v[2]>>
      [] TypeOf(v) = "number" -> <<"digits", v[2]>>
      [] OTHER -> <<"literal", "null">>

\* the value JSON.parse reads from a token
Untoken(t) ==
    CASE t[1] = "quoted" -> Str(t[2])
      [] t[1] = "digits" -> Num(t[2])
      [] t = <<"literal", "true">> -> JSTrue
      [] t = <<"literal", "false">> -> JSFalse
      [] OTHER -> Null

RECURSIVE Members(_, _)
Members(o, keys) ==
    IF keys = <<>> THEN <<>>
    ELSE LET k == Head(keys)
             rest == Members(o, Tail(keys))
         IN IF Prop(o, k) = Undefined THEN rest
            ELSE <<<<k, Token(Prop(o, k))>>>> \o rest

\* JSON.stringify(o) for an object whose properties were created in the order keys
JSONstringify(o, keys) == ObjectText(Members(o, keys))

\* JSON.parse(text): [threw, value]
JSONparse(text) ==
    CASE text.kind = "object" ->
           LET ms == text.members
               names == {ms[i][1] : i \in DOMAIN ms}
               last(n) == CHOOSE i \in DOMAIN ms :
                              /\ ms[i][1] = n
                              /\ \A j \in DOMAIN ms : ms[j][1] = n => j <= i
           IN [threw |-> FALSE,
               value |-> Obj([n \in names |-> Untoken(ms[last(n)][2])])]
      [] text.kind = "null" -> [threw |-> FALSE, value |-> Null]
      [] OTHER -> [threw |-> TRUE, value |-> Undefined]

-----------------------------------------------------------------------------
(* localStorage *)

NoItem == [kind |-> "none"]

STORAGE_KEY == "guruji_auth_cache"
FLAG_KEY == "guruji_has_account"
CACHE_TTL == 24 * 60 * 60 * 1000

\* one call of the storage API, as logged in lastOp.calls
Call(method, key, threw) == <<method, key, IF threw THEN "threw" ELSE "ok">>

\* the value stored under FLAG_KEY by markHasAccount: the string 'true'
TrueText == [kind |-> "raw", text |-> "true"]

\* a - b on numbers (NaN when either side is NaN)
Minus(a, b) == IF a = NaN \/ b = NaN THEN NaN ELSE Num(a[2] - b[2])

\* a > b on numbers: false when either side is NaN
Greater(a, b) == a # NaN /\ b # NaN /\ a[2] > b[2]

-----------------------------------------------------------------------------
(* AuthCache: the storage operations.  Each operator takes the storage     *)
(* mode, the items it reads and the clock, and returns the items it leaves *)
(* with its result and the storage calls it made.                          *)

\* clear() leaving the item where it is
clear_LeavesItem(mode, item) ==
    [cache |-> item,
     calls |-> <<Call("removeItem", STORAGE_KEY, mode = "disabled")>>]

\* clear(): removeItem inside try, errors ignored
clear(mode, item) ==
    [cache |-> IF mode = "disabled" THEN item ELSE NoItem,
     calls |-> <<Call("removeItem", STORAGE_KEY, mode = "disabled")>>]

\* get() expiring a record on the instant it reaches the TTL
get_ExpiresAtTTL(mode, item, t) ==
    LET purge == clear(mode, item)
        read == Call("getItem", STORAGE_KEY, mode = "disabled")
        purged == [ret |-> Null, cache |-> purge.cache,
                   calls |-> <<read>> \o purge.calls]
    IN IF mode = "disabled" THEN purged
       ELSE IF item = NoItem \/ item = EmptyText
       THEN [ret |-> Null, cache |-> item, calls |-> <<read>>]
       ELSE LET p == JSONparse(item)
            IN IF p.threw THEN purged
               ELSE IF p.value = Null THEN purged
               ELSE LET age == Minus(Num(t), ToNumber(Prop(p.value, "lastSync")))
                    IN IF ~Greater(Num(CACHE_TTL), age) THEN purged
                       ELSE [ret |-> p.value, cache |-> item, calls |-> <<read>>]

\* get(): the cached state, or null if missing, unparseable or expired
get(mode, item, t) ==
    LET purge == clear(mode, item)
        read == Call("getItem", STORAGE_KEY, mode = "disabled")
        purged == [ret |-> Null, cache |-> purge.cache,
                   calls |-> <<read>> \o purge.calls]
    IN IF mode = "disabled" THEN purged
       ELSE IF item = NoItem \/ item = EmptyText
       THEN [ret |-> Null, cache |-> item, calls |-> <<read>>]
       ELSE LET p == JSONparse(item)
            IN IF p.threw THEN purged
               ELSE IF p.value = Null THEN purged
               ELSE LET age == Minus(Num(t), ToNumber(Prop(p.value, "lastSync")))
                    IN IF Greater(age, Num(CACHE_TTL)) THEN purged
                       ELSE [ret |-> p.value, cache |-> item, calls |-> <<read>>]

DataKeys == <<"isLoggedIn", "userId", "userName", "userImage", "lastSync">>

\* set() building the object without the image
SetData_DropsImage(state, t) ==
    Obj([isLoggedIn |-> OrElse(Prop(state, "isLoggedIn"), JSFalse),
         userId |-> OrElse(Prop(state, "userId"), Null),
         userName |-> OrElse(Prop(state, "userName"), Str("")),
         userImage |-> Null,
         lastSync |-> Num(t)])

\* set() keeping a lastSync its argument brings
SetData_KeepsCallerStamp(state, t) ==
    Obj([isLoggedIn |-> OrElse(Prop(state, "isLoggedIn"), JSFalse),
         userId |-> OrElse(Prop(state, "userId"), Null),
         userName |-> OrElse(Prop(state, "userName"), Str("")),
         userImage |-> OrElse(Prop(state, "userImage"), Null),
         lastSync |-> OrElse(Prop(state, "lastSync"), Num(t))])

\* the object set() builds from its argument
SetData(state, t) ==
    Obj([isLoggedIn |-> OrElse(Prop(state, "isLoggedIn"), JSFalse),
         userId |-> OrElse(Prop(state, "userId"), Null),
         userName |-> OrElse(Prop(state, "userName"), Str("")),
         userImage |-> OrElse(Prop(state, "userImage"), Null),
         lastSync |-> Num(t)])

\* set(state) emptying the slot when the write is rejected
set_FailureErases(mode, item, t, state, quota) ==
    LET threw == mode = "disabled" \/ quota
    IN [cache |-> IF threw THEN NoItem ELSE JSONstringify(SetData(state, t), DataKeys),
        warned |-> threw,
        calls |-> <<Call("setItem", STORAGE_KEY, threw)>>]

\* set(state): quota is whether the browser rejects this setItem for lack of room
set(mode, item, t, state, quota) ==
    LET threw == mode = "disabled" \/ quota
    IN [cache |-> IF threw THEN item ELSE JSONstringify(SetData(state, t), DataKeys),
        warned |-> threw,
        calls |-> <<Call("setItem", STORAGE_KEY, threw)>>]

\* markHasAccount()
markHasAccount(mode, f, quota) ==
    LET threw == mode = "disabled" \/ quota
    IN [flag |-> IF threw THEN f ELSE TrueText,
        warned |-> threw,
        calls |-> <<Call("setItem", FLAG_KEY, threw)>>]

\* hasAccount(): false when the flag cannot be read
hasAccount(mode, f) == IF mode = "disabled" THEN FALSE ELSE f = TrueText

\* the argument syncWithClerk passes to set for a signed-in user
ClerkState(clerkUser) ==
    Obj([isLoggedIn |-> JSTrue,
         userId |-> Prop(clerkUser, "id"),
         userName |-> OrElse(Prop(clerkUser, "fullName"),
                             OrElse(Prop(clerkUser, "firstName"), Str("User"))),
         userImage |-> OrElse(Prop(clerkUser, "imageUrl"), Null)])

\* syncWithClerk as it was before the flag existed: it only writes the record
syncWithClerk_NoMark(mode, item, f, t, clerkUser, quotaFlag, quotaCache) ==
    IF Truthy(clerkUser)
    THEN LET s == set(mode, item, t, ClerkState(clerkUser), quotaCache)
         IN [cache |-> s.cache, flag |-> f, calls |-> s.calls]
    ELSE LET c == clear(mode, item)
         IN [cache |-> c.cache, flag |-> f, calls |-> c.calls]

\* syncWithClerk removing the flag with the record on sign-out
syncWithClerk_ForgetsAccount(mode, item, f, t, clerkUser, quotaFlag, quotaCache) ==
    IF Truthy(clerkUser)
    THEN LET m == markHasAccount(mode, f, quotaFlag)
             s == set(mode, item, t, ClerkState(clerkUser), quotaCache)
         IN [cache |-> s.cache, flag |-> m.flag, calls |-> m.calls \o s.calls]
    ELSE LET c == clear(mode, item)
         IN [cache |-> c.cache,
             flag |-> IF mode = "disabled" THEN f ELSE NoItem,
             calls |-> c.calls \o <<Call("removeItem", FLAG_KEY, mode = "disabled")>>]

\* syncWithClerk recording the sign-out instead of removing the record
syncWithClerk_WritesLoggedOut(mode, item, f, t, clerkUser, quotaFlag, quotaCache) ==
    IF Truthy(clerkUser)
    THEN LET m == markHasAccount(mode, f, quotaFlag)
             s == set(mode, item, t, ClerkState(clerkUser), quotaCache)
         IN [cache |-> s.cache, flag |-> m.flag, calls |-> m.calls \o s.calls]
    ELSE LET s == set(mode, item, t, Obj([isLoggedIn |-> JSFalse]), FALSE)
         IN [cache |-> s.cache, flag |-> f, calls |-> s.calls]

\* syncWithClerk leaving the record in place on sign-out
syncWithClerk_KeepsRecord(mode, item, f, t, clerkUser, quotaFlag, quotaCache) ==
    IF Truthy(clerkUser)
    THEN LET m == markHasAccount(mode, f, quotaFlag)
             s == set(mode, item, t, ClerkState(clerkUser), quotaCache)
         IN [cache |-> s.cache, flag |-> m.flag, calls |-> m.calls \o s.calls]
    ELSE [cache |-> item, flag |-> f, calls |-> <<>>]

\* syncWithClerk(clerkUser)
syncWithClerk(mode, item, f, t, clerkUser, quotaFlag, quotaCache) ==
    IF Truthy(clerkUser)
    THEN LET m == markHasAccount(mode, f, quotaFlag)
             s == set(mode, item, t, ClerkState(clerkUser), quotaCache)
         IN [cache |-> s.cache, flag |-> m.flag, calls |-> m.calls \o s.calls]
    ELSE LET c == clear(mode, item)
         IN [cache |-> c.cache, flag |-> f, calls |-> c.calls]

\* isLoggedIn(): cached ? cached.isLoggedIn : false
isLoggedIn(mode, item, t) ==
    LET g == get(mode, item, t)
    IN [ret |-> IF Truthy(g.ret) THEN Prop(g.ret, "isLoggedIn") ELSE JSFalse,
        cache |-> g.cache, calls |-> g.calls]

\* getUserId(): cached ? cached.userId : null
getUserId(mode, item, t) ==
    LET g == get(mode, item, t)
    IN [ret |-> IF Truthy(g.ret) THEN Prop(g.ret, "userId") ELSE Null,
        cache |-> g.cache, calls |-> g.calls]

-----------------------------------------------------------------------------
(* AuthCache: the optimistic render and the click handler it binds *)

NoControl ==
    [kind |-> "none", label |-> "", icon |-> "", image |-> Null,
     onclick |-> FALSE, disabled |-> FALSE, html |-> "none"]

\* the label as it was before the flag existed
ButtonText_AlwaysSignIn(mode, f) == "Sign In"

\* the label and the icon both branches with a button choose from hasAccount()
ButtonText(mode, f) == IF hasAccount(mode, f) THEN "Sign In" ELSE "Sign Up"
ButtonIcon(mode, f) == IF hasAccount(mode, f) THEN "fa-sign-in-alt" ELSE "fa-user-plus"

\* renderOptimisticUI(container): [ret, cache, ui, calls]; old is the mount
\* point's contents before the call
renderOptimisticUI(mode, item, f, t, container, old) ==
    IF ~Truthy(container)
    THEN [ret |-> JSFalse, cache |-> item, ui |-> old, calls |-> <<>>]
    ELSE LET g == get(mode, item, t)
             cached == g.ret
         IN IF Truthy(cached) /\ Truthy(Prop(cached, "isLoggedIn"))
            THEN [ret |-> JSTrue, cache |-> g.cache, calls |-> g.calls,
                  ui |-> [kind |-> "authenticated", label |-> "Dashboard",
                          icon |-> IF Truthy(Prop(cached, "userImage"))
                                   THEN "img" ELSE "fa-user",
                          image |-> IF Truthy(Prop(cached, "userImage"))
                                    THEN Prop(cached, "userImage") ELSE Null,
                          onclick |-> FALSE, disabled |-> FALSE,
                          html |-> "auth-loading"]]
            ELSE IF cached = Null
            THEN [ret |-> JSTrue, cache |-> g.cache,
                  calls |-> g.calls
                            \o <<Call("getItem", FLAG_KEY, mode = "disabled"),
                                 Call("getItem", FLAG_KEY, mode = "disabled")>>,
                  ui |-> [kind |-> "loading", label |-> ButtonText(mode, f),
                          icon |-> "fa-spinner", image |-> Null,
                          onclick |-> FALSE, disabled |-> FALSE,
                          html |-> "button"]]
            ELSE [ret |-> JSTrue, cache |-> g.cache,
                  calls |-> g.calls
                            \o <<Call("getItem", FLAG_KEY, mode = "disabled"),
                                 Call("getItem", FLAG_KEY, mode = "disabled")>>,
                  ui |-> [kind |-> "actionable", label |-> ButtonText(mode, f),
                          icon |-> ButtonIcon(mode, f), image |-> Null,
                          onclick |-> TRUE, disabled |-> FALSE,
                          html |-> "button"]]

\* the flows an activation can start
Popup(action) == [kind |-> "popup", action |-> action, href |-> <<>>]
Redirect(action, href) == [kind |-> "redirect", action |-> action, href |-> href]
Thrown == [kind |-> "TypeError", action |-> "", href |-> <<>>]

\* window.Clerk.openSignIn() / openSignUp(): calling a missing method throws
ClerkCall(sdk, method, action) ==
    IF Truthy(Prop(sdk, method)) THEN Popup(action) ELSE Thrown

\* the button shown loading but left enabled
LatchedButton_StaysEnabled(btn) ==
    [btn EXCEPT !.html = "Loading...", !.icon = "fa-spinner"]

\* the button after the handler found no SDK: spinner, "Loading...", disabled
LatchedButton(btn) ==
    [btn EXCEPT !.html = "Loading...", !.icon = "fa-spinner", !.disabled = TRUE]

\* btn.onclick: [ui, effects, calls]
onclick(mode, f, sdk, btn) ==
    IF Truthy(sdk)
    THEN [ui |-> btn,
          calls |-> <<Call("getItem", FLAG_KEY, mode = "disabled")>>,
          effects |-> IF hasAccount(mode, f)
                      THEN <<ClerkCall(sdk, "openSignIn", "sign-in")>>
                      ELSE <<ClerkCall(sdk, "openSignUp", "sign-up")>>]
    ELSE [ui |-> LatchedButton(btn), calls |-> <<>>, effects |-> <<>>]

-----------------------------------------------------------------------------
(* BrowserDetect.  A user-agent string is modelled by the set of the       *)
(* substrings of interest it contains: ua.includes(p) and /p/.test(ua) are *)
(* p \in ua, and the empty set is the empty string.                        *)

inAppBrowserPatterns ==
    <<"Instagram", "FBAN", "FBAV", "FB_IAB", "FB4A", "FBIOS", "TikTok",
      "BytedanceWebview", "Snapchat", "LinkedIn", "Pinterest", "Twitter",
      "Line", "KAKAOTALK", "WeChat", "MicroMessenger", "QQ", "Weibo", "GSA">>

\* navigator.userAgent || navigator.vendor || window.opera || ''
UserAgent(e) == IF e.userAgent # {} THEN e.userAgent ELSE e.vendor

\* _isPopupBlocked() taking a probe that cannot look for a restriction
isPopupBlocked_FailsClosed(e) ==
    IF e.probeThrows THEN TRUE
    ELSE IF e.openerNull /\ e.referrerEmpty /\ e.selfIsTop THEN FALSE
    ELSE IF ~e.hasWindowOpen THEN TRUE
    ELSE FALSE

\* _isPopupBlocked(): the window probe, false when it cannot look
isPopupBlocked(e) ==
    IF e.probeThrows THEN FALSE
    ELSE IF e.openerNull /\ e.referrerEmpty /\ e.selfIsTop THEN FALSE
    ELSE IF ~e.hasWindowOpen THEN TRUE
    ELSE FALSE

\* isInAppBrowser() without the platform checks
isInAppBrowser_PatternsOnly(e) ==
    LET ua == UserAgent(e)
    IN IF \E i \in DOMAIN inAppBrowserPatterns : inAppBrowserPatterns[i] \in ua
       THEN TRUE
       ELSE IF isPopupBlocked(e) THEN TRUE
       ELSE FALSE

\* isInAppBrowser()
isInAppBrowser(e) ==
    LET ua == UserAgent(e)
    IN IF \E i \in DOMAIN inAppBrowserPatterns : inAppBrowserPatterns[i] \in ua
       THEN TRUE
       ELSE IF "Android" \in ua /\ "wv" \in ua THEN TRUE
       ELSE IF /\ {"iPhone", "iPad", "iPod"} \cap ua # {}
               /\ "AppleWebKit" \in ua
               /\ "Safari" \notin ua
       THEN TRUE
       ELSE IF isPopupBlocked(e) THEN TRUE
       ELSE FALSE

NoName == "null"

\* getInAppBrowserName() without the loop over the patterns
getInAppBrowserName_PlatformOnly(e) ==
    LET ua == UserAgent(e)
    IN IF "Android" \in ua /\ "wv" \in ua THEN "Android WebView"
       ELSE IF /\ {"iPhone", "iPad", "iPod"} \cap ua # {}
               /\ "AppleWebKit" \in ua
               /\ "Safari" \notin ua
       THEN "iOS WebView"
       ELSE NoName

\* getInAppBrowserName(): the first pattern found, or a platform name, or null
getInAppBrowserName(e) ==
    LET ua == UserAgent(e)
        hits == {i \in DOMAIN inAppBrowserPatterns : inAppBrowserPatterns[i] \in ua}
    IN IF hits # {}
       THEN inAppBrowserPatterns[CHOOSE i \in hits : \A j \in hits : i <= j]
       ELSE IF "Android" \in ua /\ "wv" \in ua THEN "Android WebView"
       ELSE IF /\ {"iPhone", "iPad", "iPod"} \cap ua # {}
               /\ "AppleWebKit" \in ua
               /\ "Safari" \notin ua
       THEN "iOS WebView"
       ELSE NoName

\* A URL is the sequence of its characters; <<>> is the empty string, and
\* stands for an omitted argument too (both are falsy).
EncodeChar(c) ==
    CASE c = "/" -> <<"%", "2", "F">>
      [] c = ":" -> <<"%", "3", "A">>
      [] c = "?" -> <<"%", "3", "F">>
      [] c = "=" -> <<"%", "3", "D">>
      [] c = "&" -> <<"%", "2", "6">>
      [] OTHER -> <<c>>

RECURSIVE encodeURIComponent(_)
encodeURIComponent(url) ==
    IF url = <<>> THEN <<>>
    ELSE EncodeChar(Head(url)) \o encodeURIComponent(Tail(url))

\* `${path}?redirect_url=${encodeURIComponent(returnUrl)}`
RedirectHref(path, returnUrl) ==
    <<path, "?redirect_url=">> \o encodeURIComponent(returnUrl)

\* redirectUrl || window.location.href
ReturnUrl(e, redirectUrl) == IF redirectUrl # <<>> THEN redirectUrl ELSE e.href

\* openSignIn trying the SDK before it looks at the browser
openSignIn_SdkFirst(e, sdk, redirectUrl) ==
    LET returnUrl == ReturnUrl(e, redirectUrl)
    IN IF Truthy(sdk) /\ Truthy(Prop(sdk, "openSignIn"))
       THEN <<ClerkCall(sdk, "openSignIn", "sign-in")>>
       ELSE <<Redirect("sign-in", RedirectHref("/sign-in", returnUrl))>>

\* openSignIn(redirectUrl): the flows it starts
openSignIn(e, sdk, redirectUrl) ==
    LET returnUrl == ReturnUrl(e, redirectUrl)
    IN IF isInAppBrowser(e)
       THEN <<Redirect("sign-in", RedirectHref("/sign-in", returnUrl))>>
       ELSE IF Truthy(sdk) /\ Truthy(Prop(sdk, "openSignIn"))
       THEN <<ClerkCall(sdk, "openSignIn", "sign-in")>>
       ELSE <<Redirect("sign-in", RedirectHref("/sign-in", returnUrl))>>

\* openSignUp(redirectUrl): the flows it starts
openSignUp(e, sdk, redirectUrl) ==
    LET returnUrl == ReturnUrl(e, redirectUrl)
    IN IF isInAppBrowser(e)
       THEN <<Redirect("sign-up", RedirectHref("/sign-up", returnUrl))>>
       ELSE IF Truthy(sdk) /\ Truthy(Prop(sdk, "openSignUp"))
       THEN <<ClerkCall(sdk, "openSignUp", "sign-up")>>
       ELSE <<Redirect("sign-up", RedirectHref("/sign-up", returnUrl))>>

-----------------------------------------------------------------------------
(* Inputs *)

\* the three string fields of an argument of set(): all missing, all given
\* empty, all given, and a mix
StringFields ==
    {[userId |-> Undefined, userName |-> Undefined, userImage |-> Undefined],
     [userId |-> Str(""), userName |-> Str(""), userImage |-> Str("")],
     [userId |-> Str("user_1"), userName |-> Str("Ada"),
      userImage |-> Str("https://x/y.png")],
     [userId |-> Str("user_1"), userName |-> Undefined, userImage |-> Str("")]}

\* an argument of set() that brings a lastSync of its own
StampedState ==
    Obj([isLoggedIn |-> JSTrue, userId |-> Str("user_1"), userName |-> Str("Ada"),
         userImage |-> Undefined, lastSync |-> Num(1)])

\* the arguments of set(): isLoggedIn missing, false or true, with those fields
SetStates ==
    {Obj([isLoggedIn |-> a] @@ f) : a \in {Undefined, JSFalse, JSTrue},
                                    f \in StringFields}
    \cup {StampedState}

\* a few of them, for the specifications about the page
FewSetStates ==
    {Obj([isLoggedIn |-> JSFalse, userId |-> Undefined,
          userName |-> Undefined, userImage |-> Undefined]),
     Obj([isLoggedIn |-> JSTrue, userId |-> Str("user_1"),
          userName |-> Str("Ada"), userImage |-> Undefined]),
     Obj([isLoggedIn |-> JSTrue, userId |-> Str("user_1"),
          userName |-> Str("Ada"), userImage |-> Str("https://x/y.png")])}

\* the users Clerk resolves: the id is never empty, the names and the image may be
ClerkNames ==
    {[fullName |-> Null, firstName |-> Null],
     [fullName |-> Null, firstName |-> Str("Ada")],
     [fullName |-> Str("Ada Lovelace"), firstName |-> Str("Ada")]}

ClerkUsers ==
    {Obj([id |-> Str("user_1"), imageUrl |-> c] @@ n) :
        n \in ClerkNames, c \in {Str(""), Str("https://x/y.png")}}

FewClerkUsers ==
    {Obj([id |-> Str("user_1"), fullName |-> Str("Ada Lovelace"),
          firstName |-> Str("Ada"), imageUrl |-> Str("https://x/y.png")])}

\* what another script, an older release or the user may leave under STORAGE_KEY
ForeignTexts ==
    {EmptyText, GarbageText, NullText,
     ObjectText(<<<<"isLoggedIn", <<"literal", "true">>>>>>),
     ObjectText(<<<<"isLoggedIn", <<"literal", "false">>>>,
                  <<"lastSync", <<"literal", "null">>>>>>)}

Fn == <<"function">>

\* window.Clerk: undefined until the script loads, then an object whose entry
\* points appear as it initialises
ClerkValues ==
    {Undefined, Obj(<<>>), Obj([openSignIn |-> Fn]), Obj([openSignUp |-> Fn]),
     Obj([openSignIn |-> Fn, openSignUp |-> Fn])}

SdkProps(sdk) == IF sdk = Undefined THEN {} ELSE DOMAIN sdk[2]

Container == Obj([id |-> Str("auth-container")])

DesktopUA == {"Mozilla", "Chrome", "Safari", "AppleWebKit"}

PlainWindow ==
    [vendor |-> {"Google"}, openerNull |-> TRUE, referrerEmpty |-> TRUE,
     selfIsTop |-> TRUE, hasWindowOpen |-> TRUE, probeThrows |-> FALSE,
     href |-> <<"/", "c", "?", "a", "=", "b">>]

Env(ua) == [userAgent |-> ua] @@ PlainWindow

\* a desktop browser and an in-app browser
FewEnvs == {Env(DesktopUA), Env(DesktopUA \cup {"Instagram"})}

\* user agents: a desktop browser, one in-app browser per catalogued pattern,
\* Android and iOS with and without the webview marks, and an empty string
UserAgents ==
    {DesktopUA, {}}
    \cup {DesktopUA \cup {inAppBrowserPatterns[i]} : i \in DOMAIN inAppBrowserPatterns}
    \cup {{"Mozilla", "Android", "Chrome", "Safari", "AppleWebKit"},
          {"Mozilla", "Android", "wv", "Chrome", "Safari", "AppleWebKit"},
          {"Mozilla", "iPhone", "AppleWebKit", "Safari"},
          {"Mozilla", "iPhone", "AppleWebKit"},
          {"Mozilla", "iPad", "AppleWebKit"},
          {"Mozilla", "iPod", "AppleWebKit", "FBAN", "FBAV"}}

Windows ==
    [vendor : {{"Google"}, {"Instagram"}}, openerNull : BOOLEAN,
     referrerEmpty : {TRUE}, selfIsTop : BOOLEAN, hasWindowOpen : BOOLEAN,
     probeThrows : BOOLEAN, href : {<<"/", "c", "?", "a", "=", "b">>}]

Envs == {[userAgent |-> ua] @@ w : ua \in UserAgents, w \in Windows}

\* the arguments of openSignIn / openSignUp: none, and a return destination
RedirectUrls == {<<>>, <<"/", "d", "&", "e", ":", "f">>}

StartTime == 10 * CACHE_TTL

-----------------------------------------------------------------------------
(* The state machine *)

\* at is the time of the call, kept for the operations that stamp the record
Op(name, arg, ret, calls, effects) ==
    [op |-> name, arg |-> arg, ret |-> ret, calls |-> calls, effects |-> effects,
     at |-> IF name \in {"set", "syncWithClerk"} THEN now ELSE StartTime]

InitWith(modes, envs) ==
    /\ storage \in modes
    /\ env \in envs
    /\ now = StartTime
    /\ ticks = 0
    /\ cache = NoItem
    /\ flag = NoItem
    /\ clerk = Undefined
    /\ ui = NoControl
    /\ lastOp = [op |-> "load", arg |-> Undefined, ret |-> Undefined,
                 calls |-> <<>>, effects |-> <<>>, at |-> StartTime]

Get ==
    LET g == get(storage, cache, now)
    IN /\ cache' = g.cache
       /\ lastOp' = Op("get", Undefined, g.ret, g.calls, <<>>)
       /\ UNCHANGED <<storage, now, ticks, flag, clerk, env, ui>>

Set(state, quota) ==
    /\ quota => storage = "ok"
    /\ LET s == set(storage, cache, now, state, quota)
       IN /\ cache' = s.cache
          /\ lastOp' = Op("set", state, Undefined, s.calls, <<>>)
    /\ UNCHANGED <<storage, now, ticks, flag, clerk, env, ui>>

Clear ==
    LET c == clear(storage, cache)
    IN /\ cache' = c.cache
       /\ lastOp' = Op("clear", Undefined, Undefined, c.calls, <<>>)
       /\ UNCHANGED <<storage, now, ticks, flag, clerk, env, ui>>

IsLoggedIn ==
    LET r == isLoggedIn(storage, cache, now)
    IN /\ cache' = r.cache
       /\ lastOp' = Op("isLoggedIn", Undefined, r.ret, r.calls, <<>>)
       /\ UNCHANGED <<storage, now, ticks, flag, clerk, env, ui>>

GetUserId ==
    LET r == getUserId(storage, cache, now)
    IN /\ cache' = r.cache
       /\ lastOp' = Op("getUserId", Undefined, r.ret, r.calls, <<>>)
       /\ UNCHANGED <<storage, now, ticks, flag, clerk, env, ui>>

SyncWithClerk(clerkUser, quotaFlag, quotaCache) ==
    /\ quotaFlag \/ quotaCache => storage = "ok" /\ Truthy(clerkUser)
    /\ LET r == syncWithClerk(storage, cache, flag, now, clerkUser,
                              quotaFlag, quotaCache)
       IN /\ cache' = r.cache
          /\ flag' = r.flag
          /\ lastOp' = Op("syncWithClerk", clerkUser, Undefined, r.calls, <<>>)
    /\ UNCHANGED <<storage, now, ticks, clerk, env, ui>>

MarkHasAccount(quota) ==
    /\ quota => storage = "ok"
    /\ LET m == markHasAccount(storage, flag, quota)
       IN /\ flag' = m.flag
          /\ lastOp' = Op("markHasAccount", Undefined, Undefined, m.calls, <<>>)
    /\ UNCHANGED <<storage, now, ticks, cache, clerk, env, ui>>

HasAccount ==
    /\ lastOp' = Op("hasAccount", Undefined,
                    IF hasAccount(storage, flag) THEN JSTrue ELSE JSFalse,
                    <<Call("getItem", FLAG_KEY, storage = "disabled")>>, <<>>)
    /\ UNCHANGED <<storage, now, ticks, cache, flag, clerk, env, ui>>

RenderOptimisticUI(container) ==
    LET r == renderOptimisticUI(storage, cache, flag, now, container, ui)
    IN /\ cache' = r.cache
       /\ ui' = r.ui
       /\ lastOp' = Op("renderOptimisticUI", container, r.ret, r.calls, <<>>)
       /\ UNCHANGED <<storage, now, ticks, flag, clerk, env>>

\* the user activates the rendered button: a disabled button, or one with no
\* handler, does nothing
Click ==
    /\ ui.kind \in {"loading", "actionable"}
    /\ ui.onclick
    /\ ~ui.disabled
    /\ LET r == onclick(storage, flag, clerk, ui)
       IN /\ ui' = r.ui
          /\ lastOp' = Op("onclick", Undefined, Undefined, r.calls, r.effects)
    /\ UNCHANGED <<storage, now, ticks, cache, flag, clerk, env>>

\* the page calls BrowserDetect.openSignIn / openSignUp
OpenSignIn(redirectUrl) ==
    /\ lastOp' = Op("openSignIn", Str(redirectUrl), Undefined, <<>>,
                    openSignIn(env, clerk, redirectUrl))
    /\ UNCHANGED <<storage, now, ticks, cache, flag, clerk, env, ui>>

OpenSignUp(redirectUrl) ==
    /\ lastOp' = Op("openSignUp", Str(redirectUrl), Undefined, <<>>,
                    openSignUp(env, clerk, redirectUrl))
    /\ UNCHANGED <<storage, now, ticks, cache, flag, clerk, env, ui>>

\* BrowserDetect.isInAppBrowser()
IsInAppBrowser ==
    /\ lastOp' = Op("isInAppBrowser", Undefined,
                    IF isInAppBrowser(env) THEN JSTrue ELSE JSFalse, <<>>, <<>>)
    /\ UNCHANGED <<storage, now, ticks, cache, flag, clerk, env, ui>>

\* BrowserDetect.getInAppBrowserName()
GetInAppBrowserName ==
    /\ lastOp' = Op("getInAppBrowserName", Undefined,
                    IF getInAppBrowserName(env) = NoName THEN Null
                    ELSE Str(getInAppBrowserName(env)), <<>>, <<>>)
    /\ UNCHANGED <<storage, now, ticks, cache, flag, clerk, env, ui>>

\* the environment: the clock, the SDK's initialisation, other writers
Tick(d) ==
    /\ ticks < MaxTicks
    /\ now' = now + d
    /\ ticks' = ticks + 1
    /\ UNCHANGED <<storage, cache, flag, clerk, env, ui, lastOp>>

ClerkLoads(sdk) ==
    /\ sdk # clerk
    /\ SdkProps(clerk) \subseteq SdkProps(sdk)
    /\ sdk # Undefined
    /\ clerk' = sdk
    /\ UNCHANGED <<storage, now, ticks, cache, flag, env, ui, lastOp>>

ForeignWrite(text) ==
    /\ storage = "ok"
    /\ cache' = text
    /\ lastOp' = Op("foreignWrite", Undefined, Undefined, <<>>, <<>>)
    /\ UNCHANGED <<storage, now, ticks, flag, clerk, env, ui>>

\* The cache on its own: every operation of the storage API of AuthCache,
\* with every argument, the clock and other writers.
Init == InitWith({"ok", "disabled"}, {Env(DesktopUA)})

Next ==
    \/ Get
    \/ \E state \in SetStates, quota \in BOOLEAN : Set(state, quota)
    \/ Clear
    \/ IsLoggedIn
    \/ GetUserId
    \/ \E u \in ClerkUsers \cup {Null}, qf \in BOOLEAN, qc \in BOOLEAN :
           SyncWithClerk(u, qf, qc)
    \/ \E quota \in BOOLEAN : MarkHasAccount(quota)
    \/ HasAccount
    \/ \E d \in {1, CACHE_TTL} : Tick(d)
    \/ \E text \in ForeignTexts : ForeignWrite(text)

Spec == Init /\ [][Next]_vars

\* The page: the cache operations with a few arguments, the optimistic render,
\* the click on the rendered button and the SDK loading, in a desktop browser
\* and in an in-app browser.
InitPage == InitWith({"ok", "disabled"}, FewEnvs)

NextPage ==
    \/ Get
    \/ \E state \in FewSetStates, quota \in BOOLEAN : Set(state, quota)
    \/ Clear
    \/ \E u \in FewClerkUsers \cup {Null}, q \in BOOLEAN : SyncWithClerk(u, q, q)
    \/ \E quota \in BOOLEAN : MarkHasAccount(quota)
    \/ \E container \in {Container, Null} : RenderOptimisticUI(container)
    \/ Click
    \/ \E sdk \in ClerkValues : ClerkLoads(sdk)
    \/ Tick(CACHE_TTL + 1)
    \/ ForeignWrite(GarbageText)

SpecPage == InitPage /\ [][NextPage]_vars

\* The cache as the page's own scripts drive it: reconcile, read, erase and
\* render, from empty storage, with no direct set() and no other writer.
InitReconcile == InitWith({"ok", "disabled"}, FewEnvs)

NextReconcile ==
    \/ Get
    \/ Clear
    \/ \E u \in ClerkUsers \cup {Null}, qf \in BOOLEAN, qc \in BOOLEAN :
          SyncWithClerk(u, qf, qc)
    \/ \E container \in {Container, Null} : RenderOptimisticUI(container)
    \/ \E d \in {1, CACHE_TTL} : Tick(d)

SpecReconcile == InitReconcile /\ [][NextReconcile]_vars

\* The same with markHasAccount, and a storage that accepts every call.
InitNoFailure == InitWith({"ok"}, FewEnvs)

NextNoFailure ==
    \/ Get
    \/ Clear
    \/ \E u \in ClerkUsers \cup {Null} : SyncWithClerk(u, FALSE, FALSE)
    \/ MarkHasAccount(FALSE)
    \/ \E container \in {Container, Null} : RenderOptimisticUI(container)
    \/ \E d \in {1, CACHE_TTL} : Tick(d)

SpecNoFailure == InitNoFailure /\ [][NextNoFailure]_vars

\* The router: BrowserDetect.openSignIn / openSignUp in every environment, at
\* every stage of the SDK's initialisation.
InitRouter == InitWith({"ok"}, Envs)

NextRouter ==
    \/ \E redirectUrl \in RedirectUrls : OpenSignIn(redirectUrl)
    \/ \E redirectUrl \in RedirectUrls : OpenSignUp(redirectUrl)
    \/ IsInAppBrowser
    \/ GetInAppBrowserName
    \/ \E sdk \in ClerkValues : ClerkLoads(sdk)

SpecRouter == InitRouter /\ [][NextRouter]_vars

-----------------------------------------------------------------------------
(* Vocabulary of the properties *)

\* what read() would return now, and the slot it would leave
Read == get(storage, cache, now).ret
SlotAfterRead == get(storage, cache, now).cache

\* every storage call of the last operation was accepted
CallsAccepted == \A i \in DOMAIN lastOp.calls : lastOp.calls[i][3] = "ok"

\* the last operation has just returned: the clock has not moved since
JustStamped == now = lastOp.at

ReconciledPresent == lastOp.op = "syncWithClerk" /\ lastOp.arg # Null
ReconciledAbsent == lastOp.op = "syncWithClerk" /\ lastOp.arg = Null

\* the name an identity goes by: its full name, else its first name, else 'User'
IdentityName(u) ==
    IF Prop(u, "fullName") \notin {Null, Undefined, Str("")} THEN Prop(u, "fullName")
    ELSE IF Prop(u, "firstName") \notin {Null, Undefined, Str("")}
    THEN Prop(u, "firstName")
    ELSE Str("User")

\* the image of an identity: its image URL, absent when it has none
IdentityImage(u) ==
    IF Prop(u, "imageUrl") \in {Null, Undefined, Str("")} THEN Null
    ELSE Prop(u, "imageUrl")

\* record r shows identity u signed in
Reflects(r, u) ==
    /\ r # Null
    /\ Prop(r, "isLoggedIn") = JSTrue
    /\ Prop(r, "userId") = Prop(u, "id")
    /\ Prop(r, "userName") = IdentityName(u)
    /\ Prop(r, "userImage") = IdentityImage(u)

\* reconcile(present) calls markHasAccount() and then write
MarksThenWrites ==
    /\ Len(lastOp.calls) = 2
    /\ lastOp.calls[1][1] = "setItem" /\ lastOp.calls[1][2] = FLAG_KEY
    /\ lastOp.calls[2][1] = "setItem" /\ lastOp.calls[2][2] = STORAGE_KEY

-----------------------------------------------------------------------------
(* C1 *)

\* C1 as stated: in every reachable state, right after reconcile(identity) with
\* a present identity, hasAccount() is true and read() returns a record with
\* isLoggedIn = true and the identity's userId, userName and userImage;
\* markHasAccount() is performed before write.
C1_ReconcilePresentAlways ==
    (ReconciledPresent /\ JustStamped) =>
        /\ hasAccount(storage, flag)
        /\ Reflects(Read, lastOp.arg)
        /\ MarksThenWrites

\* C1 amended: the same, whenever the storage accepted both writes of the call.
C1_ReconcilePresentWhenStored ==
    (ReconciledPresent /\ JustStamped) =>
        /\ MarksThenWrites
        /\ CallsAccepted => hasAccount(storage, flag) /\ Reflects(Read, lastOp.arg)

\* reconcile of an identity with no full name has just been stored
C1_Witness ==
    /\ ReconciledPresent /\ JustStamped /\ CallsAccepted
    /\ Prop(lastOp.arg, "fullName") = Null
    /\ Prop(lastOp.arg, "firstName") = Str("Ada")
    /\ Prop(Read, "userName") = Str("Ada")
    /\ hasAccount(storage, flag)

-----------------------------------------------------------------------------
(* C2 *)

\* C2: reconcile(absent) leaves the CacheRecord slot empty, so that a
\* following read() returns absent, and leaves the AccountFlag, and what
\* hasAccount() answers, exactly as they were before the call.
C2_ReconcileAbsentKeepsFlag ==
    [][ (lastOp'.op = "syncWithClerk" /\ lastOp'.arg = Null) =>
            /\ cache' = NoItem
            /\ get(storage', cache', now').ret = Null
            /\ flag' = flag
            /\ hasAccount(storage', flag') = hasAccount(storage, flag) ]_vars

\* signed out, the slot empty, and the account still remembered
C2_Witness ==
    /\ ReconciledAbsent
    /\ cache = NoItem
    /\ Read = Null
    /\ hasAccount(storage, flag)

-----------------------------------------------------------------------------
(* C3 *)

\* C3: the AccountFlag is monotonic: whatever write, read, erase,
\* markHasAccount, reconcile, render or clock advance happens, once
\* hasAccount() answers true it never answers false afterwards.
C3_HasAccountMonotonic ==
    [][ hasAccount(storage, flag) => hasAccount(storage', flag') ]_vars

\* the account is remembered after the record expired and the page rendered
C3_Witness ==
    /\ hasAccount(storage, flag)
    /\ lastOp.op = "renderOptimisticUI"
    /\ cache = NoItem
    /\ ticks > 0
    /\ ui.kind = "loading" /\ ui.label = "Sign In"

-----------------------------------------------------------------------------
(* C4 *)

Wrote == lastOp.op = "set" /\ CallsAccepted

WithinTTL == now - lastOp.at <= CACHE_TTL

\* the record read back carries these four fields and the time of the write
ReadsBack(login, id, name, image) ==
    /\ Read # Null
    /\ Prop(Read, "isLoggedIn") = login
    /\ Prop(Read, "userId") = id
    /\ Prop(Read, "userName") = name
    /\ Prop(Read, "userImage") = image
    /\ Prop(Read, "lastSync") = Num(lastOp.at)

\* a missing field takes its default, a supplied one is kept
MissingToDefault(v, default) == IF v = Undefined THEN default ELSE v

\* a missing field and one supplied empty take the default, others are kept
MissingOrEmptyToDefault(v, default) ==
    IF v \in {Undefined, Str("")} THEN default ELSE v

\* C4 as stated: after a write that was stored, a read() within the TTL returns
\* the supplied fields, the missing ones replaced by their defaults (false,
\* absent, "", absent), and lastSync equal to the time of the write.
C4_RoundTripSupplied ==
    (Wrote /\ WithinTTL) =>
        ReadsBack(MissingToDefault(Prop(lastOp.arg, "isLoggedIn"), JSFalse),
                  MissingToDefault(Prop(lastOp.arg, "userId"), Null),
                  MissingToDefault(Prop(lastOp.arg, "userName"), Str("")),
                  MissingToDefault(Prop(lastOp.arg, "userImage"), Null))

\* C4 amended: the same, with the fields that are missing or supplied as the
\* empty string replaced by their defaults.
C4_RoundTripNonEmpty ==
    (Wrote /\ WithinTTL) =>
        ReadsBack(MissingOrEmptyToDefault(Prop(lastOp.arg, "isLoggedIn"), JSFalse),
                  MissingOrEmptyToDefault(Prop(lastOp.arg, "userId"), Null),
                  MissingOrEmptyToDefault(Prop(lastOp.arg, "userName"), Str("")),
                  MissingOrEmptyToDefault(Prop(lastOp.arg, "userImage"), Null))

\* a record written with only some fields is read back on the last valid instant
C4_Witness ==
    /\ Wrote
    /\ now - lastOp.at = CACHE_TTL
    /\ Prop(lastOp.arg, "userName") = Undefined
    /\ Prop(lastOp.arg, "userId") = Str("user_1")
    /\ Prop(Read, "userName") = Str("")
    /\ Prop(Read, "userId") = Str("user_1")

-----------------------------------------------------------------------------
(* C5 *)

\* the slot holds a record as set() writes it: the five fields, lastSync a number
IsRecord(item) ==
    /\ item.kind = "object"
    /\ {item.members[i][1] : i \in DOMAIN item.members}
           = {DataKeys[i] : i \in DOMAIN DataKeys}
    /\ TypeOf(Prop(JSONparse(item).value, "lastSync")) = "number"

Age(item) == now - Prop(JSONparse(item).value, "lastSync")[2]

ReadingOps == {"get", "isLoggedIn", "getUserId", "renderOptimisticUI"}
WritingOps == {"set", "syncWithClerk", "clear", "foreignWrite"}

\* C5: a stored record is returned by read() iff now - lastSync <= TTL; for an
\* older one read() returns absent and empties the slot; and a record leaves
\* the slot only in a write, an erase, or a read that finds it older than TTL:
\* never because the clock moved.
C5_LazyExpiry ==
    /\ [](IsRecord(cache) =>
            /\ Age(cache) <= CACHE_TTL =>
                  Read = JSONparse(cache).value /\ SlotAfterRead = cache
            /\ Age(cache) > CACHE_TTL =>
                  Read = Null /\ SlotAfterRead = NoItem)
    /\ [][ (IsRecord(cache) /\ cache' # cache) =>
              \/ lastOp'.op \in WritingOps
              \/ /\ lastOp'.op \in ReadingOps
                 /\ Age(cache) > CACHE_TTL
                 /\ cache' = NoItem ]_vars

\* an expired record still sits in the slot: nothing read it yet
C5_Witness ==
    /\ IsRecord(cache)
    /\ Age(cache) > CACHE_TTL
    /\ lastOp.op = "hasAccount"

-----------------------------------------------------------------------------
(* C6 *)

\* C6: read() returns a record only if the stored value is a well-formed record
\* within its TTL, and for every other stored value it returns absent and
\* leaves the slot empty.
C6_ReadOnlyWellFormed ==
    /\ Read # Null => IsRecord(cache) /\ Age(cache) <= CACHE_TTL
    /\ (cache # NoItem /\ ~IsRecord(cache)) => Read = Null /\ SlotAfterRead = NoItem

-----------------------------------------------------------------------------
(* C7 *)

\* this step is a call of renderOptimisticUI that rendered
Rendered ==
    /\ lastOp'.op = "renderOptimisticUI"
    /\ lastOp'.ret = JSTrue
    /\ ticks' = ticks
    /\ clerk' = clerk

LabelFor(account) == IF account THEN "Sign In" ELSE "Sign Up"

\* the instruction u that the record r and the flag call for
Decides(r, account, u) ==
    /\ u.kind \in {"authenticated", "loading", "actionable"}
    /\ (r # Null /\ Prop(r, "isLoggedIn") = JSTrue) =>
           /\ u.kind = "authenticated"
           /\ ~u.onclick
           /\ IF Prop(r, "userImage") \notin {Null, Undefined}
              THEN u.icon = "img" /\ u.image = Prop(r, "userImage")
              ELSE u.icon = "fa-user" /\ u.image = Null
    /\ r = Null =>
           /\ u.kind = "loading"
           /\ u.icon = "fa-spinner"
           /\ ~u.onclick
           /\ u.label = LabelFor(account)
    /\ (r # Null /\ Prop(r, "isLoggedIn") = JSFalse) =>
           /\ u.kind = "actionable"
           /\ u.onclick /\ ~u.disabled
           /\ u.label = LabelFor(account)

\* C7: every render is decided by (read(), hasAccount()): a record with
\* isLoggedIn = true gives the authenticated affordance, with the record's
\* image or else the placeholder, and no bound action; no record gives a
\* loading-styled control with no bound action; a record with isLoggedIn =
\* false gives an actionable control with a bound action; and the label of
\* either control is "Sign In" iff hasAccount().
C7_RenderDecision ==
    [][ Rendered => Decides(Read, hasAccount(storage, flag), ui') ]_vars

\* a signed-out record and a remembered account: an actionable "Sign In"
C7_Witness ==
    /\ lastOp.op = "renderOptimisticUI"
    /\ Read # Null
    /\ Prop(Read, "isLoggedIn") = JSFalse
    /\ hasAccount(storage, flag)
    /\ ui.kind = "actionable" /\ ui.label = "Sign In" /\ ui.onclick

-----------------------------------------------------------------------------
(* C8 *)

\* the activation found the SDK ready, the entry point it needed included
ActivatedWithSdk ==
    /\ lastOp.op = "onclick"
    /\ lastOp.effects # <<>>
    /\ lastOp.effects[1] # Thrown

\* what FlowRouter does for the action hasAccount() selects, the SDK having
\* been sdk at the time
Routed(sdk) ==
    IF hasAccount(storage, flag) THEN openSignIn(env, sdk, <<>>)
    ELSE openSignUp(env, sdk, <<>>)

\* C8: an activation with the SDK ready does what FlowRouter does for sign-in
\* if hasAccount() and for sign-up otherwise; in a context isInAppBrowser
\* classifies as restrictive that is one redirect, never an in-page SDK call.
C8_ActivationRouted ==
    ActivatedWithSdk =>
        /\ \E sdk \in ClerkValues \ {Undefined} :
               /\ SdkProps(sdk) \subseteq SdkProps(clerk)
               /\ lastOp.effects = Routed(sdk)
        /\ isInAppBrowser(env) =>
               /\ Len(lastOp.effects) = 1
               /\ lastOp.effects[1].kind = "redirect"

-----------------------------------------------------------------------------
(* C9 *)

DecodeTriple(a, b) ==
    CASE <<a, b>> = <<"2", "F">> -> "/"
      [] <<a, b>> = <<"3", "A">> -> ":"
      [] <<a, b>> = <<"3", "F">> -> "?"
      [] <<a, b>> = <<"3", "D">> -> "="
      [] <<a, b>> = <<"2", "6">> -> "&"
      [] OTHER -> "?"

\* what the redirect target reads out of the query parameter
RECURSIVE UrlDecode(_)
UrlDecode(q) ==
    IF q = <<>> THEN <<>>
    ELSE IF Head(q) = "%" /\ Len(q) >= 3
    THEN <<DecodeTriple(q[2], q[3])>> \o UrlDecode(SubSeq(q, 4, Len(q)))
    ELSE <<Head(q)>> \o UrlDecode(Tail(q))

\* this step is a call of the router for action, entry point and path
Routes(name) == lastOp'.op = name /\ clerk' = clerk

\* the one effect FlowRouter owes for action, with the given entry point and path
RouterOutcome(action, entry, path, effects) ==
    /\ Len(effects) = 1
    /\ IF isInAppBrowser(env) \/ clerk = Undefined \/ entry \notin SdkProps(clerk)
       THEN /\ effects[1].kind = "redirect"
            /\ effects[1].href[1] = path
            /\ effects[1].href[2] = "?redirect_url="
            /\ UrlDecode(SubSeq(effects[1].href, 3, Len(effects[1].href)))
                   = IF lastOp'.arg = Str(<<>>) THEN env.href ELSE lastOp'.arg[2]
       ELSE effects[1] = Popup(action)

\* C9: every call of FlowRouter has exactly one effect, fixed by the action,
\* the classification and the entry point: a redirect to /sign-in or /sign-up
\* carrying the return destination, and no SDK call, if the context is
\* restrictive or the matching entry point is unavailable; the matching in-page
\* entry point, and no redirect, otherwise.
C9_RouterOutcome ==
    [][ /\ Routes("openSignIn") =>
            RouterOutcome("sign-in", "openSignIn", "/sign-in", lastOp'.effects)
        /\ Routes("openSignUp") =>
            RouterOutcome("sign-up", "openSignUp", "/sign-up", lastOp'.effects) ]_vars

\* an in-app browser with the SDK fully loaded: the router redirects all the same
C9_Witness ==
    /\ lastOp.op = "openSignIn"
    /\ isInAppBrowser(env)
    /\ SdkProps(clerk) = {"openSignIn", "openSignUp"}
    /\ lastOp.effects[1].kind = "redirect"
    /\ lastOp.arg # Str(<<>>)

-----------------------------------------------------------------------------
(* C10 *)

\* this step is an activation that found no SDK
ActivatedWithoutSdk ==
    /\ lastOp'.op = "onclick"
    /\ lastOp' # lastOp
    /\ clerk = Undefined
    /\ clerk' = clerk

\* this step replaces the contents of the mount point
Replaced == lastOp'.op = "renderOptimisticUI" /\ lastOp'.ret = JSTrue

\* C10: an activation with the SDK not ready leaves the control loading and
\* disabled and starts no flow; and a disabled control stays as it is, and no
\* activation of it takes place, whatever happens (the SDK loading, cache
\* operations, the clock), until a render replaces it.
C10_OneShotLatch ==
    [][ /\ ActivatedWithoutSdk =>
            /\ ui'.disabled
            /\ ui'.html = "Loading..."
            /\ lastOp'.effects = <<>>
        /\ (ui.disabled /\ ~Replaced) =>
            /\ ui' = ui
            /\ lastOp'.op = "onclick" => lastOp' = lastOp ]_vars

\* the control is latched, the SDK has loaded since, and the cache was used
C10_Witness ==
    /\ ui.disabled
    /\ ui.html = "Loading..."
    /\ SdkProps(clerk) = {"openSignIn", "openSignUp"}
    /\ lastOp.op = "syncWithClerk"

-----------------------------------------------------------------------------
(* C11 *)

\* C11: no call of this system invokes an SDK entry point that is missing:
\* whatever the SDK's state (absent, present without openSignIn, without
\* openSignUp, fully initialised), the deferred action and the router start a
\* redirect, an in-page flow that exists, or nothing; a call of a missing
\* entry point (a TypeError) never happens.
C11_EntryPointChecked ==
    \A i \in DOMAIN lastOp.effects : lastOp.effects[i] # Thrown

-----------------------------------------------------------------------------
(* C12 *)

\* the four checks of the classifier, each on its own; the user agent is the
\* string the classifier reads (navigator.userAgent, or what stands in for it)
Catalogued == {inAppBrowserPatterns[i] : i \in DOMAIN inAppBrowserPatterns}
HasSignature(e) == UserAgent(e) \cap Catalogued # {}
IsAndroidWebView(e) == {"Android", "wv"} \subseteq UserAgent(e)
IsIosWebView(e) ==
    /\ \E d \in {"iPhone", "iPad", "iPod"} : d \in UserAgent(e)
    /\ "AppleWebKit" \in UserAgent(e)
    /\ "Safari" \notin UserAgent(e)
ProbeRestricted(e) == isPopupBlocked(e)
Classified == lastOp.op = "isInAppBrowser"

\* C12: isInAppBrowser() returns true exactly when one of the four checks holds
\* (a catalogued signature in the user agent, Android with the webview marker,
\* an iOS device with the engine token and no standalone-browser token, the
\* window probe reporting a restriction), false when none does; taking the
\* checks in the opposite order gives the same answer.
C12_ClassifierIsDisjunction ==
    Classified =>
        /\ (lastOp.ret = JSTrue) <=>
              (\/ HasSignature(env) \/ IsAndroidWebView(env)
               \/ IsIosWebView(env) \/ ProbeRestricted(env))
        /\ (lastOp.ret = JSTrue) <=>
              (\/ ProbeRestricted(env) \/ IsIosWebView(env)
               \/ IsAndroidWebView(env) \/ HasSignature(env))
        /\ lastOp.ret \in {JSTrue, JSFalse}

\* classified by the Android check alone
C12_Witness ==
    /\ Classified /\ lastOp.ret = JSTrue
    /\ IsAndroidWebView(env)
    /\ ~HasSignature(env) /\ ~IsIosWebView(env) /\ ~ProbeRestricted(env)

-----------------------------------------------------------------------------
(* C13 *)

LookedUp == lastOp.op = "getInAppBrowserName"

\* C13: the diagnostic lookup agrees with the classifier and does not
\* influence it: when the user agent contains a catalogued signature,
\* isInAppBrowser() is true and getInAppBrowserName() returns a catalogued
\* token that occurs in the user agent; a non-null name implies a true
\* classification; and a call of the lookup changes neither the
\* classification nor the flow openSignIn / openSignUp would start.
C13_LookupAgrees ==
    /\ [](LookedUp =>
            /\ HasSignature(env) =>
                  /\ isInAppBrowser(env)
                  /\ \E t \in Catalogued \cap UserAgent(env) : lastOp.ret = Str(t)
            /\ lastOp.ret # Null => isInAppBrowser(env))
    /\ [][LookedUp' /\ lastOp' # lastOp =>
            /\ isInAppBrowser(env') = isInAppBrowser(env)
            /\ \A u \in RedirectUrls :
                  /\ openSignIn(env', clerk', u) = openSignIn(env, clerk, u)
                  /\ openSignUp(env', clerk', u) = openSignUp(env, clerk, u)]_vars

\* the lookup named one of two signatures of the user agent
C13_Witness ==
    /\ LookedUp
    /\ Cardinality(Catalogued \cap UserAgent(env)) = 2
    /\ lastOp.ret = Str("FBAN")

-----------------------------------------------------------------------------
(* C14 *)

\* the last operation asked the storage to write the record and was refused
RecordRefused ==
    /\ lastOp.op \in {"set", "syncWithClerk"}
    /\ \E i \in DOMAIN lastOp.calls :
          lastOp.calls[i] = Call("setItem", STORAGE_KEY, TRUE)

\* this step is a write or a reconcile whose write of the record was refused
WriteRejected == RecordRefused' /\ ticks' = ticks /\ clerk' = clerk

\* C14: when the storage rejects the write of the record, set() and
\* syncWithClerk() return normally, the slot keeps the value it held before
\* the call, and a render performed next completes with the instruction that
\* the unchanged record calls for.
C14_FailedWriteHarmless ==
    [][WriteRejected =>
          /\ lastOp'.ret = Undefined
          /\ cache' = cache
          /\ LET r == renderOptimisticUI(storage', cache', flag', now', Container, ui')
             IN /\ r.ret = JSTrue
                /\ Decides(Read, hasAccount(storage', flag'), r.ui)]_vars

\* a write was refused for lack of room while the slot held a record
C14_Witness ==
    /\ RecordRefused
    /\ storage = "ok"
    /\ IsRecord(cache)
    /\ Read # Null

-----------------------------------------------------------------------------
(* C15 *)

\* what isLoggedIn() and the render report for a stored record that says
\* isLoggedIn: false
LoggedOutAnswer == JSFalse
LoggedOutControl == "actionable"

\* C15: with no valid record in the slot, no operation that reports the login
\* status answers as it does for a stored record with isLoggedIn false: the
\* isLoggedIn() query does not return that record's answer, and a render
\* does not draw that record's control.
C15_AbsentIsNotLoggedOut ==
    /\ (lastOp.op = "isLoggedIn" /\ JustStamped /\ Read = Null) =>
           lastOp.ret # LoggedOutAnswer
    /\ Read = Null =>
           renderOptimisticUI(storage, cache, flag, now, Container, ui).ui.kind
               # LoggedOutControl

-----------------------------------------------------------------------------
(* C16 *)

\* the probe raises inside, and no signature or platform check holds
OnlyFailingProbe ==
    /\ env.probeThrows
    /\ ~HasSignature(env) /\ ~IsAndroidWebView(env) /\ ~IsIosWebView(env)

-----------------------------------------------------------------------------
(* C17 *)

\* the lastSync of the record in the slot
StoredStamp(item) == Prop(JSONparse(item).value, "lastSync")

\* this step is a write or a reconcile whose write of the record was accepted
WriteAccepted ==
    /\ lastOp'.op \in {"set", "syncWithClerk"}
    /\ ticks' = ticks /\ clerk' = clerk
    /\ \E i \in DOMAIN lastOp'.calls :
          lastOp'.calls[i] = Call("setItem", STORAGE_KEY, FALSE)

\* C17: the lastSync of the stored record is the clock at the most recent
\* successful write: set() and syncWithClerk() stamp the record with the time
\* of the call whatever lastSync the caller supplies, a stamp never lies in
\* the future, and the stamp of a stored record changes in no other operation
\* (read, erase, markHasAccount, hasAccount, the clock).
C17_StampIsWriteTime ==
    /\ [](IsRecord(cache) => StoredStamp(cache)[2] <= now)
    /\ [][ /\ WriteAccepted =>
                /\ IsRecord(cache')
                /\ StoredStamp(cache') = Num(now)
           /\ (IsRecord(cache') /\ ~WriteAccepted) =>
                /\ IsRecord(cache)
                /\ StoredStamp(cache') = StoredStamp(cache)]_vars

\* a later write with a lastSync of the caller's replaced an earlier record
C17_Witness ==
    /\ lastOp.op = "set" /\ lastOp.arg = StampedState
    /\ CallsAccepted
    /\ IsRecord(cache)
    /\ StoredStamp(cache) = Num(now)
    /\ now > StartTime

-----------------------------------------------------------------------------
(* C18 *)

\* this step is an erase
Erased == lastOp'.op = "clear" /\ ticks' = ticks /\ clerk' = clerk

\* C18: clear() removes the record and nothing else, and is idempotent: it
\* returns normally even when the storage refuses the removal, it empties the
\* slot the storage lets it reach, a second clear() right after it would
\* change nothing, on an empty slot it changes nothing, and it leaves the
\* account flag (and the control on the page) as they were.
C18_EraseIdempotent ==
    [][Erased =>
          /\ lastOp'.ret = Undefined
          /\ storage = "ok" => cache' = NoItem
          /\ clear(storage', cache').cache = cache'
          /\ cache = NoItem => cache' = cache
          /\ flag' = flag
          /\ ui' = ui]_vars

\* an erase has emptied the slot and the account flag is still set
C18_Witness ==
    /\ lastOp.op = "clear"
    /\ CallsAccepted
    /\ cache = NoItem
    /\ flag = TrueText

-----------------------------------------------------------------------------
(* C19 *)

\* read() at time t would return a record that says isLoggedIn: true
ReadsLoggedIn(mode, item, t) ==
    /\ get(mode, item, t).ret # Null
    /\ Prop(get(mode, item, t).ret, "isLoggedIn") = JSTrue

\* this step is a reconcile with a user, or a write of isLoggedIn: true
LogsIn ==
    /\ lastOp'.op \in {"set", "syncWithClerk"}
    /\ ticks' = ticks /\ clerk' = clerk
    /\ \/ lastOp'.op = "syncWithClerk" /\ lastOp'.arg # Null
       \/ lastOp'.op = "set" /\ Prop(lastOp'.arg, "isLoggedIn") = JSTrue

\* C19: sign-out is sticky.  syncWithClerk(null) leaves a state from which
\* read() returns no logged-in record; from a state like that only a
\* reconcile with a user or a write of isLoggedIn: true leads to one from
\* which it does (reads, erases, renders, the flag, the clock and the SDK do
\* not); and a render draws the avatar, and a read() returns isLoggedIn: true,
\* only in a state from which read() returns a logged-in record.
C19_SignOutSticky ==
    /\ [](ReconciledAbsent => ~ReadsLoggedIn(storage, cache, now))
    /\ [][ /\ (~ReadsLoggedIn(storage, cache, now)
                 /\ ReadsLoggedIn(storage', cache', now')) => LogsIn
           /\ (Rendered /\ ui'.kind = "authenticated") =>
                 ReadsLoggedIn(storage, cache, now)
           /\ (lastOp'.op = "get" /\ ticks' = ticks /\ clerk' = clerk
                 /\ lastOp'.ret # Null
                 /\ Prop(lastOp'.ret, "isLoggedIn") = JSTrue) =>
                 ReadsLoggedIn(storage, cache, now)]_vars

\* signed out while the avatar of the session before is still on the page
C19_Witness ==
    /\ ReconciledAbsent
    /\ CallsAccepted
    /\ ui.kind = "authenticated"
    /\ flag = TrueText
    /\ cache = NoItem

-----------------------------------------------------------------------------
(* C20 *)

\* C20: from empty storage, with reconcile, read, erase and render only (no
\* direct set()), whatever the slot holds is a record that says isLoggedIn:
\* true; so a render draws the avatar or the loading control, never the
\* actionable button of a logged-out record.
C20_NoLoggedOutRecord ==
    /\ cache # NoItem =>
          /\ IsRecord(cache)
          /\ Prop(JSONparse(cache).value, "isLoggedIn") = JSTrue
    /\ Read # Null => Prop(Read, "isLoggedIn") = JSTrue
    /\ ui.kind \in {"none", "authenticated", "loading"}
    /\ (lastOp.op = "renderOptimisticUI" /\ lastOp.ret = JSTrue) =>
          ui.kind \in {"authenticated", "loading"}

\* a render found the record of an earlier reconcile too old and drew the
\* loading control
C20_Witness ==
    /\ lastOp.op = "renderOptimisticUI" /\ lastOp.ret = JSTrue
    /\ ui.kind = "loading"
    /\ flag = TrueText
    /\ \E i \in DOMAIN lastOp.calls :
          lastOp.calls[i] = Call("removeItem", STORAGE_KEY, FALSE)

-----------------------------------------------------------------------------
(* C21 *)

\* the slot holds a record that says isLoggedIn: true
StoresLoggedIn ==
    /\ IsRecord(cache)
    /\ Prop(JSONparse(cache).value, "isLoggedIn") = JSTrue

\* C21: from empty storage that accepts every call, with reconcile, read,
\* erase, markHasAccount and render only, a stored record with isLoggedIn:
\* true implies hasAccount(): a reconcile with a user sets the flag and then
\* writes the record; the flag once set stays set; and with the flag set a
\* render that finds no logged-in record offers "Sign In", never "Sign Up".
C21_SignedInHasAccount ==
    /\ [](StoresLoggedIn => hasAccount(storage, flag))
    /\ [](ReconciledPresent =>
            lastOp.calls = <<Call("setItem", FLAG_KEY, FALSE),
                             Call("setItem", STORAGE_KEY, FALSE)>>)
    /\ []((lastOp.op = "renderOptimisticUI" /\ lastOp.ret = JSTrue
             /\ hasAccount(storage, flag) /\ ui.kind # "authenticated") =>
            ui.label = "Sign In")
    /\ [][hasAccount(storage, flag) => hasAccount(storage', flag')]_vars

\* the record of a signed-in user has expired, and the render that removed it
\* offers "Sign In"
C21_Witness ==
    /\ lastOp.op = "renderOptimisticUI" /\ lastOp.ret = JSTrue
    /\ Call("removeItem", STORAGE_KEY, FALSE)
           \in {lastOp.calls[i] : i \in DOMAIN lastOp.calls}
    /\ cache = NoItem
    /\ ui.kind = "loading" /\ ui.label = "Sign In"

====
